---- MODULE Spec2Model ----
(***************************************************************************)
(* Model of the video Source of the hang watch pipeline                    *)
(* (js/hang/src/watch/video/source.ts): rendition selection, the pending   *)
(* and active track pipelines, Sync-gated frame publication, buffer status *)
(* and close().                                                            *)
(*                                                                         *)
(* One TLA+ step is one JavaScript job: a call made by the user of the     *)
(* Source, one run of a reactive effect (its cleanups followed by its      *)
(* body), the synchronous head of a decoder output callback, or the        *)
(* continuation of that callback after its await.                          *)
(***************************************************************************)
EXTENDS Integers, Sequences, FiniteSets, TLC

(***************************************************************************)
(* Values                                                                  *)
(***************************************************************************)

\* JavaScript undefined, for a rendition name, a pixel count or a timestamp.
NoName == "undefined"
Undefined == -1

\* VideoDecoderConfig entries of the catalog: Object.entries() of a record of
\* renditions is a sequence of these, in the record's entry order.  A
\* codedWidth/codedHeight of 0 stands for an absent field (the code tests
\* them with "!").
Rendition(n, c, w, h) == [name |-> n, codec |-> c, codedWidth |-> w, codedHeight |-> h]

\* The value of #selectedConfig when nothing is selected.
NoConfig == [codec |-> "undefined", codedWidth |-> 0, codedHeight |-> 0]

\* target: pixels and rendition are both optional.
Target(p, r) == [pixels |-> p, rendition |-> r]

Names(entries) == {entries[i].name : i \in 1..Len(entries)}

Lookup(entries, n) == entries[CHOOSE i \in 1..Len(entries) : entries[i].name = n]

(***************************************************************************)
(* Bounds of the model                                                     *)
(***************************************************************************)

\* Longest supported record handed to #selectRendition by the harness.
MaxRenditions == 3
\* Decoded frames carry timestamps 0..MaxTs milliseconds.
MaxTs == 1
\* Track pipelines (Effect objects made by #runPending) alive at once.
MaxPipes == 3
\* Decoder output callbacks suspended at their await at once.
MaxOutputs == 2

(***************************************************************************)
(* #selectRendition                                                        *)
(***************************************************************************)

\* Number.MAX_SAFE_INTEGER / 2 - 1 is about 4.5e15, beyond the integers of the
\* model checker; any value above every area of the model takes the same
\* branches.
DefaultPixels == 2000000000

NoPick == [larger |-> NoName, largerSize |-> 0, smaller |-> NoName, smallerSize |-> 0]

\* One iteration of the loop over the entries; undefined sizes are 0, which
\* "!largerSize" cannot tell from undefined either.
selectStep(acc, rendition, pixels) ==
    IF rendition.codedHeight = 0 \/ rendition.codedWidth = 0 THEN acc
    ELSE LET size == rendition.codedHeight * rendition.codedWidth
         IN IF size > pixels /\ (acc.largerSize = 0 \/ size < acc.largerSize)
            THEN [acc EXCEPT !.larger = rendition.name, !.largerSize = size]
            ELSE IF size < pixels /\ (acc.smallerSize = 0 \/ size > acc.smallerSize)
            THEN [acc EXCEPT !.smaller = rendition.name, !.smallerSize = size]
            ELSE acc

RECURSIVE selectLoop(_, _, _, _)
selectLoop(entries, i, pixels, acc) ==
    IF i > Len(entries) THEN acc
    ELSE selectLoop(entries, i + 1, pixels, selectStep(acc, entries[i], pixels))

\* Rounds down instead of up: prefers the closest smaller rendition.
selectRenditionSmallerFirst(renditions, target) ==
    IF Len(renditions) = 0 THEN NoName
    ELSE IF Len(renditions) = 1 THEN renditions[1].name
    ELSE LET pixels == IF target.pixels = Undefined THEN DefaultPixels ELSE target.pixels
             acc == selectLoop(renditions, 1, pixels, NoPick)
         IN IF acc.smaller # NoName THEN acc.smaller
            ELSE IF acc.larger # NoName THEN acc.larger
            ELSE renditions[1].name

\* Gives up when no rendition carries dimensions.
selectRenditionNoFallback(renditions, target) ==
    IF Len(renditions) = 0 THEN NoName
    ELSE IF Len(renditions) = 1 THEN renditions[1].name
    ELSE LET pixels == IF target.pixels = Undefined THEN DefaultPixels ELSE target.pixels
             acc == selectLoop(renditions, 1, pixels, NoPick)
         IN IF acc.larger # NoName THEN acc.larger
            ELSE IF acc.smaller # NoName THEN acc.smaller
            ELSE NoName

selectRendition(renditions, target) ==
    IF Len(renditions) = 0 THEN NoName
    ELSE IF Len(renditions) = 1 THEN renditions[1].name
    ELSE LET pixels == IF target.pixels = Undefined THEN DefaultPixels ELSE target.pixels
             acc == selectLoop(renditions, 1, pixels, NoPick)
         IN IF acc.larger # NoName THEN acc.larger
            ELSE IF acc.smaller # NoName THEN acc.smaller
            ELSE renditions[1].name

\* Ignores the manual override.
SelectionNoManual(supported, target) == selectRendition(supported, target)

\* The choice made by #runSelected: the manual override when it names a
\* supported rendition, else the pixel-based rule.
Selection(supported, target) ==
    IF target.rendition # NoName /\ target.rendition \in Names(supported)
    THEN target.rendition
    ELSE selectRendition(supported, target)

(***************************************************************************)
(* Inputs of the model                                                     *)
(***************************************************************************)

hd == Rendition("hd", "avc1", 1920, 1080)
sd == Rendition("sd", "avc1", 256, 144)
\* hd after an in-band resolution change: only codedWidth/Height differ.
hdResized == Rendition("hd", "avc1", 1280, 720)
\* A rendition the platform decoder cannot decode.
uhd == Rendition("uhd", "hev1", 3840, 2160)

\* VideoDecoder.isConfigSupported of the platform.
isConfigSupported(rendition) == rendition.codec = "avc1"

\* catalog.video.renditions as the catalog track delivers them.  Before the
\* first catalog arrives there are no renditions.
Catalogs == { <<hd, sd>>, <<hdResized, sd>>, <<uhd, sd>> }

\* Values the user of the Source gives target.
Targets == { Target(Undefined, NoName),
             Target(Undefined, "sd"),
             Target(160 * 90, "uhd") }

\* Time.Milli.fromMicro
MicroPerMilli == 1000
fromMicro(us) == us \div MicroPerMilli

\* VideoFrame.timestamp values the decoders hand out, in microseconds.
FrameTimestamps == {ms * MicroPerMilli : ms \in 0..MaxTs}

(***************************************************************************)
(* State                                                                   *)
(***************************************************************************)
VARIABLES
    broadcast,          \* Source.broadcast is defined
    enabled,            \* Source.enabled
    catalog,            \* Source.catalog?.renditions
    h_supported,        \* #supported, in entry order
    target,             \* Source.target
    h_selected,         \* #selected
    h_config,           \* #config: the rendition selected, or NoConfig
    h_selectedConfig,   \* #selectedConfig
    active,             \* Source.active: name of the active rendition
    frame,              \* Source.frame: timestamp (us) of the VideoFrame held
    h_timestamp,        \* #timestamp (ms)
    bufferStatus,       \* Source.bufferStatus.state
    pipes,              \* the Effect objects made by #runPending
    h_pending,          \* #pending: index into pipes, 0 when undefined
    h_active,           \* #active: index into pipes, 0 when undefined
    outputs,            \* decoder output callbacks suspended at their await
    scheduled,          \* effects of #signals that are queued to run
    closed,             \* #signals is closed
    written,            \* history: timestamp (us) last written to frame
    clones,             \* clones written to frame and not closed
    call,               \* harness: one call of #selectRendition
    sub,                \* the input side of one pipeline: its subscription
    disc,               \* the HangConfig element: its discovery runs
    ui                  \* one component of hang-ui

vars == << broadcast, enabled, catalog, h_supported, target, h_selected, h_config,
           h_selectedConfig, active, frame, h_timestamp, bufferStatus, pipes,
           h_pending, h_active, outputs, scheduled, closed, written, clones, call, sub,
           disc, ui >>

\* What the steps of the Source leave alone.
harnessVars == << call, sub, disc, ui >>

sourceVars == << broadcast, enabled, catalog, h_supported, target, h_selected, h_config,
                 h_selectedConfig, active, frame, h_timestamp, bufferStatus, pipes,
                 h_pending, h_active, outputs, scheduled, closed, written, clones >>

\* The effects registered on #signals by the constructor that the model keeps.
Effects == {"runSupported", "runSelected", "runPending", "runBuffer"}

FreePipe == [state |-> "free", name |-> NoName, promoted |-> FALSE, error |-> FALSE]

\* No pipeline input is looked at.
NoSub == [kind |-> "none"]

\* No HangConfig element is attached to the Source under study.
NoDisc == [url |-> NoName]

\* No component of hang-ui is mounted.
NoUi == [kind |-> "none"]

NoCall == [renditions |-> <<>>, target |-> Target(Undefined, NoName), pc |-> "idle", result |-> NoName]

\* new Source(broadcast, catalog, sync): every signal at its initial value and
\* every effect queued for its first run.
SourceInit ==
    /\ broadcast = FALSE
    /\ enabled = FALSE
    /\ catalog = <<>>
    /\ h_supported = <<>>
    /\ target = Target(Undefined, NoName)
    /\ h_selected = NoName
    /\ h_config = NoConfig
    /\ h_selectedConfig = NoConfig
    /\ active = NoName
    /\ frame = Undefined
    /\ h_timestamp = Undefined
    /\ bufferStatus = "empty"
    /\ pipes = [p \in 1..MaxPipes |-> FreePipe]
    /\ h_pending = 0
    /\ h_active = 0
    /\ outputs = {}
    /\ scheduled = Effects
    /\ closed = FALSE
    /\ written = Undefined
    /\ clones = 0

Init == SourceInit /\ call = NoCall /\ sub = NoSub /\ disc = NoDisc /\ ui = NoUi

(***************************************************************************)
(* Signals and effects (@moq/signals)                                      *)
(***************************************************************************)

\* The signals an effect read with effect.get in its last run.  #runSelected
\* returns before reading #supported and target when enabled is false.
Deps(e) ==
    CASE e = "runSupported" -> {"catalog"}
      [] e = "runSelected" -> IF enabled THEN {"enabled", "supported", "target"} ELSE {"enabled"}
      [] e = "runPending" -> {"broadcast", "enabled", "selected", "selectedConfig"}
      [] e = "runBuffer" -> {"frame", "enabled"}

\* Signals whose value after the step differs from the value before it; a
\* signal reset by a cleanup and set back to an equal value in the same run
\* has not changed.
Changed ==
    {s \in {"broadcast", "enabled", "catalog", "supported", "target", "selected",
            "selectedConfig", "frame"} :
        CASE s = "broadcast" -> broadcast' # broadcast
          [] s = "enabled" -> enabled' # enabled
          [] s = "catalog" -> catalog' # catalog
          [] s = "supported" -> h_supported' # h_supported
          [] s = "target" -> target' # target
          [] s = "selected" -> h_selected' # h_selected
          [] s = "selectedConfig" -> h_selectedConfig' # h_selectedConfig
          [] s = "frame" -> frame' # frame}

\* The effects queued after a step in which the effects in ran have run:
\* every open effect that read a signal the step changed.
Schedule(ran) ==
    scheduled' = IF closed' THEN {}
                 ELSE (scheduled \ ran) \cup {e \in Effects : Deps(e) \cap Changed # {}}

\* Effect.cancel of a closed scope wins every race still undecided: ok is
\* undefined and the callback returns at "if (!ok) return", so the callbacks
\* of p that still wait leave the set of suspended callbacks.
Cancel(outs, p) == {o \in outs : ~(o.pipe = p /\ o.st = "waiting")}

(***************************************************************************)
(* Track pipelines                                                         *)
(***************************************************************************)

\* The part of the state a pipeline step works on, as one record.
Track == [pipes |-> pipes, h_pending |-> h_pending, h_active |-> h_active,
          outputs |-> outputs, active |-> active, frame |-> frame,
          h_timestamp |-> h_timestamp, written |-> written, clones |-> clones]

\* this.frame.set(frame.clone())
frameSet(s, us) == [s EXCEPT !.frame = us, !.written = us, !.clones = @ + 1]

\* this.frame.update((prev) => { prev?.close(); return v; }), where v is a
\* clone of the decoded frame or undefined.
frameUpdate(s, v) ==
    LET kept == IF s.frame = Undefined THEN s.clones ELSE s.clones - 1
    IN [s EXCEPT !.frame = v,
                 !.written = IF v = Undefined THEN @ ELSE v,
                 !.clones = IF v = Undefined THEN kept ELSE kept + 1]

\* effect.close() of pipeline p: Effect.close does nothing on a closed
\* effect; else the cleanups #runTrack registered run: the subscription and
\* the decoder are closed, #timestamp is reset if p is #active, and active is
\* reset if p was promoted (the cleanup of effect.set).
closeTrack(s, p) ==
    IF p = 0 \/ s.pipes[p].state # "open" THEN s
    ELSE [s EXCEPT !.pipes[p].state = "closed",
                   !.h_timestamp = IF s.h_active = p THEN Undefined ELSE @,
                   !.active = IF s.pipes[p].promoted THEN NoName ELSE @,
                   !.outputs = Cancel(@, p)]

\* Pipelines nothing refers to any more are garbage; their slot is reused.
Referenced(s, p) ==
    \/ s.h_pending = p
    \/ s.h_active = p
    \/ \E o \in s.outputs : o.pipe = p

Collect(s) ==
    [s EXCEPT !.pipes = [p \in 1..MaxPipes |->
        IF s.pipes[p].state = "closed" /\ ~Referenced(s, p) THEN FreePipe ELSE s.pipes[p]]]

Commit(s) ==
    LET t == Collect(s)
    IN /\ pipes' = t.pipes
       /\ h_pending' = t.h_pending
       /\ h_active' = t.h_active
       /\ outputs' = t.outputs
       /\ active' = t.active
       /\ frame' = t.frame
       /\ h_timestamp' = t.h_timestamp
       /\ written' = t.written
       /\ clones' = t.clones

inputVars == << broadcast, enabled, catalog, target >>
selectionVars == << h_supported, h_selected, h_config, h_selectedConfig >>
trackVars == << pipes, h_pending, h_active, outputs, active, frame, h_timestamp, written,
               clones >>

(***************************************************************************)
(* Calls made by the user of the Source                                    *)
(***************************************************************************)

\* Jobs run to completion: the effect runs and callback continuations a task
\* queued are microtasks, and they have all run before the next task (a call
\* by the user, a decoder callback) starts.
Idle == scheduled = {} /\ \A o \in outputs : o.st = "waiting"

\* broadcast.set(...)
setBroadcast(b) ==
    /\ ~closed
    /\ Idle
    /\ b # broadcast
    /\ broadcast' = b
    /\ UNCHANGED << enabled, catalog, target, selectionVars, trackVars, bufferStatus, closed, harnessVars >>
    /\ Schedule({})

\* enabled.set(...)
setEnabled(e) ==
    /\ ~closed
    /\ Idle
    /\ e # enabled
    /\ enabled' = e
    /\ UNCHANGED << broadcast, catalog, target, selectionVars, trackVars, bufferStatus, closed, harnessVars >>
    /\ Schedule({})

\* target.set(...)
setTarget(t) ==
    /\ ~closed
    /\ Idle
    /\ t # target
    /\ target' = t
    /\ UNCHANGED << broadcast, enabled, catalog, selectionVars, trackVars, bufferStatus, closed, harnessVars >>
    /\ Schedule({})

\* The first effect of the constructor, run because the catalog signal it was
\* given changed to a catalog whose video.renditions is c.
runCatalog(c) ==
    /\ ~closed
    /\ Idle
    /\ c # catalog
    /\ catalog' = c
    /\ UNCHANGED << broadcast, enabled, target, selectionVars, trackVars, bufferStatus, closed, harnessVars >>
    /\ Schedule({})

(***************************************************************************)
(* Effects of #signals                                                     *)
(***************************************************************************)

RECURSIVE supportedOf(_)
\* The loop of #runSupported: the renditions the decoder supports, in order.
supportedOf(renditions) ==
    IF renditions = <<>> THEN <<>>
    ELSE IF isConfigSupported(Head(renditions))
         THEN <<Head(renditions)>> \o supportedOf(Tail(renditions))
         ELSE supportedOf(Tail(renditions))

runSupported ==
    /\ "runSupported" \in scheduled
    /\ h_supported' = supportedOf(catalog)
    /\ UNCHANGED << inputVars, h_selected, h_config, h_selectedConfig, trackVars,
                    bufferStatus, closed, harnessVars >>
    /\ Schedule({"runSupported"})

\* supported[selected]
configOf(rendition) ==
    [codec |-> rendition.codec, codedWidth |-> rendition.codedWidth,
     codedHeight |-> rendition.codedHeight]

\* Drops the dimensions no more than the full config does.
requiredConfigKeepsSize(config) == config

\* RequiredDecoderConfig: { ...supported[selected], codedWidth: undefined,
\* codedHeight: undefined }
requiredConfig(config) == [config EXCEPT !.codedWidth = 0, !.codedHeight = 0]

\* #runSelected.  The cleanups of the effect.set calls of the previous run
\* reset #selected, #config and #selectedConfig to undefined before the body.
runSelected ==
    /\ "runSelected" \in scheduled
    /\ LET selected == IF enabled THEN Selection(h_supported, target) ELSE NoName
       IN IF selected = NoName
          THEN /\ h_selected' = NoName
               /\ h_config' = NoConfig
               /\ h_selectedConfig' = NoConfig
          ELSE /\ h_selected' = selected
               /\ h_config' = configOf(Lookup(h_supported, selected))
               /\ h_selectedConfig' = requiredConfig(configOf(Lookup(h_supported, selected)))
    /\ UNCHANGED << inputVars, h_supported, trackVars, bufferStatus, closed, harnessVars >>
    /\ Schedule({"runSelected"})

\* The slot the next new Effect() takes.
NewPipe(s) == CHOOSE p \in 1..MaxPipes :
                /\ s.pipes[p].state = "free"
                /\ \A q \in 1..MaxPipes : s.pipes[q].state = "free" => p <= q

\* #runTrack: subscribe, create the decoder and register the cleanups.
runTrack(s, p, name) ==
    [s EXCEPT !.pipes[p] = [state |-> "open", name |-> name, promoted |-> FALSE, error |-> FALSE]]

\* The stop branch of #runPending.
runPendingStop(s) ==
    frameUpdate([closeTrack(s, s.h_active) EXCEPT !.h_active = 0], Undefined)

\* Closes the active pipeline as soon as the pending one is opened.
runPendingStartEager(s) ==
    LET t == Collect([closeTrack(s, s.h_active) EXCEPT !.h_pending = 0])
        p == NewPipe(t)
    IN runTrack([t EXCEPT !.h_pending = p], p, h_selected)

\* The start branch of #runPending: #pending = new Effect(), then #runTrack.
\* The Effect #pending held before is no longer referenced by it.
runPendingStart(s) ==
    LET t == Collect([s EXCEPT !.h_pending = 0])
        p == NewPipe(t)
    IN runTrack([t EXCEPT !.h_pending = p], p, h_selected)

\* A slot is left for one more Effect (the bound MaxPipes).
CanStart(s) ==
    \E p \in 1..MaxPipes : Collect([s EXCEPT !.h_pending = 0]).pipes[p].state = "free"

\* #runPending.  The cleanup registered by the previous run closes what
\* #pending then holds; only the start branch registers it, and a #pending
\* that outlives a run of the stop branch is closed already, so that closing
\* #pending before every run is the same.
runPending ==
    /\ "runPending" \in scheduled
    /\ LET s == closeTrack(Track, h_pending)
       IN IF ~broadcast \/ h_selected = NoName \/ h_selectedConfig = NoConfig \/ ~enabled
          THEN Commit(runPendingStop(s))
          ELSE CanStart(s) /\ Commit(runPendingStart(s))
    /\ UNCHANGED << inputVars, selectionVars, bufferStatus, closed, harnessVars >>
    /\ Schedule({"runPending"})

\* Tests the frame alone.
runBufferIgnoresEnabled ==
    /\ "runBuffer" \in scheduled
    /\ bufferStatus' = IF frame = Undefined THEN "empty" ELSE "filled"
    /\ UNCHANGED << inputVars, selectionVars, trackVars, closed, harnessVars >>
    /\ Schedule({"runBuffer"})

\* #runBuffer
runBuffer ==
    /\ "runBuffer" \in scheduled
    /\ bufferStatus' = IF enabled /\ frame = Undefined THEN "empty" ELSE "filled"
    /\ UNCHANGED << inputVars, selectionVars, trackVars, closed, harnessVars >>
    /\ Schedule({"runBuffer"})

(***************************************************************************)
(* Decoder callbacks of a track pipeline                                   *)
(***************************************************************************)

Output(p, us, st) == [pipe |-> p, timestamp |-> us, st |-> st]

\* The output callback up to its await: the first late-frame test, the
\* placeholder publication, and the race of Sync.wait against effect.cancel.
\* The decoder of a closed pipeline is closed and calls back no more.
output(p, us) ==
    /\ Idle
    /\ pipes[p].state = "open"
    /\ ~(fromMicro(us) < (IF h_timestamp = Undefined THEN 0 ELSE h_timestamp))
    /\ Output(p, us, "waiting") \in outputs \/ Cardinality(outputs) < MaxOutputs
    /\ LET s == IF frame = Undefined
                THEN frameSet(Track, us)
                ELSE Track
       IN Commit([s EXCEPT !.outputs = @ \cup {Output(p, us, "waiting")}])
    /\ UNCHANGED << inputVars, selectionVars, bufferStatus, closed, harnessVars >>
    /\ Schedule({})

\* Sync.wait(timestamp) resolves while the race is undecided: ok is true.
syncWait(o) ==
    /\ o \in outputs
    /\ o.st = "waiting"
    /\ outputs' = (outputs \ {o}) \cup {[o EXCEPT !.st = "ready"]}
    /\ UNCHANGED << inputVars, selectionVars, bufferStatus, closed, harnessVars, scheduled,
                    pipes, h_pending, h_active, active, frame, h_timestamp, written,
                    clones >>

\* Promotion that leaves the previously active pipeline running.
promoteKeepOld(s, p) ==
    IF s.h_pending # p THEN s
    ELSE LET u == [s EXCEPT !.h_active = p, !.h_pending = 0]
         IN IF u.pipes[p].state = "open"
            THEN [u EXCEPT !.active = u.pipes[p].name, !.pipes[p].promoted = TRUE]
            ELSE u

\* "If the track switch was pending, complete it now."  effect.set on a
\* closed effect is ignored.
promote(s, p) ==
    IF s.h_pending # p THEN s
    ELSE LET t == closeTrack(s, s.h_active)
             u == [t EXCEPT !.h_active = p, !.h_pending = 0]
         IN IF u.pipes[p].state = "open"
            THEN [u EXCEPT !.active = u.pipes[p].name, !.pipes[p].promoted = TRUE]
            ELSE u

\* The output callback after its await.
resume(o) ==
    /\ o \in outputs
    /\ o.st = "ready"
    /\ LET s == [Track EXCEPT !.outputs = @ \ {o}]
           timestamp == fromMicro(o.timestamp)
       IN IF timestamp < (IF h_timestamp = Undefined THEN 0 ELSE h_timestamp)
          THEN Commit(s)
          ELSE Commit(promote(frameUpdate([s EXCEPT !.h_timestamp = timestamp],
                                          o.timestamp), o.pipe))
    /\ UNCHANGED << inputVars, selectionVars, bufferStatus, closed, harnessVars >>
    /\ Schedule({})

\* The error callback of the decoder: effect.close().
error(p) ==
    /\ Idle
    /\ pipes[p].state = "open"
    /\ Commit([closeTrack(Track, p) EXCEPT !.pipes[p].error = TRUE])
    /\ UNCHANGED << inputVars, selectionVars, bufferStatus, closed, harnessVars >>
    /\ Schedule({})

(***************************************************************************)
(* Source.close                                                            *)
(***************************************************************************)

\* What close() does to the pipelines: frame is set to undefined, and
\* #signals.close() runs the cleanup of #runPending, which closes #pending.
closePipelines(s) == closeTrack(frameUpdate(s, Undefined), s.h_pending)

\* close().  #signals.close() also runs the cleanups of the effect.set calls
\* of the catalog effect and of #runSelected, and no effect runs afterwards.
close ==
    /\ ~closed
    /\ Idle
    /\ closed' = TRUE
    /\ catalog' = <<>>
    /\ h_selected' = NoName
    /\ h_config' = NoConfig
    /\ h_selectedConfig' = NoConfig
    /\ Commit(closePipelines(Track))
    /\ UNCHANGED << broadcast, enabled, target, h_supported, bufferStatus, harnessVars >>
    /\ Schedule(Effects)

(***************************************************************************)
(* The Source as a state machine                                           *)
(***************************************************************************)

Next ==
    \/ \E b \in BOOLEAN : setBroadcast(b)
    \/ \E e \in BOOLEAN : setEnabled(e)
    \/ \E t \in Targets : setTarget(t)
    \/ \E c \in Catalogs : runCatalog(c)
    \/ runSupported
    \/ runSelected
    \/ runPending
    \/ runBuffer
    \/ \E p \in 1..MaxPipes, us \in FrameTimestamps : output(p, us)
    \/ \E o \in outputs : syncWait(o)
    \/ \E o \in outputs : resume(o)
    \/ \E p \in 1..MaxPipes : error(p)
    \/ close

Spec == Init /\ [][Next]_vars

(***************************************************************************)
(* #selectRendition on its own: one call on a bounded set of arguments      *)
(***************************************************************************)

RenditionNames == {"hd", "sd", "ld", "xd"}

\* codedWidth x codedHeight of the renditions handed in; <<0, 0>> is a
\* rendition without dimensions, <<1920, 0>> one without codedHeight.
Dimensions == { <<1920, 1080>>, <<256, 144>>, <<0, 0>>, <<1920, 0>> }

\* target.pixels values handed in.
PixelTargets == { Undefined, 300 * 200, 256 * 144, 1920 * 1080 }

\* Object.entries of the records of at most MaxRenditions renditions: the
\* keys of a record are distinct.
Records ==
    UNION { { r \in [1..n -> {Rendition(nm, "avc1", d[1], d[2]) : nm \in RenditionNames, d \in Dimensions}] :
                \A i, j \in 1..n : i # j => r[i].name # r[j].name }
            : n \in 0..MaxRenditions }

SelectInit ==
    /\ SourceInit
    /\ call \in { [renditions |-> r, target |-> Target(px, NoName), pc |-> "idle", result |-> NoName] :
                    r \in Records, px \in PixelTargets }
    /\ sub = NoSub
    /\ disc = NoDisc
    /\ ui = NoUi

\* this.#selectRendition(renditions, target)
select ==
    /\ call.pc = "idle"
    /\ call' = [call EXCEPT !.pc = "done", !.result = selectRendition(call.renditions, call.target)]
    /\ UNCHANGED << sourceVars, sub, disc, ui >>

SelectNext == select

SpecSelect == SelectInit /\ [][SelectNext]_vars

(***************************************************************************)
(* Properties of pixel-based selection                                     *)
(***************************************************************************)

\* The renditions of a call that carry codedWidth and codedHeight.
Sized(renditions) ==
    {i \in 1..Len(renditions) : renditions[i].codedWidth # 0 /\ renditions[i].codedHeight # 0}

AreaOf(rendition) == rendition.codedWidth * rendition.codedHeight

Areas(renditions) == {AreaOf(renditions[i]) : i \in Sized(renditions)}

Smallest(S) == CHOOSE a \in S : \A b \in S : a <= b
Largest(S) == CHOOSE a \in S : \A b \in S : a >= b

\* The area the rule "smallest area >= target.pixels, else the largest area"
\* asks for; with target.pixels absent, the largest area.
WantedArea(renditions, pixels) ==
    LET atLeast == {a \in Areas(renditions) : a >= pixels}
    IN IF pixels = Undefined \/ atLeast = {} THEN Largest(Areas(renditions))
       ELSE Smallest(atLeast)

\* C5: with at least two renditions that carry dimensions, pixel-based
\* selection returns a rendition of the smallest area >= target.pixels (an
\* area equal to target.pixels is eligible), of the largest area when none is
\* that large, and of the largest area when target.pixels is absent.
C5_SmallestAtLeastTarget ==
    (call.pc = "done" /\ Cardinality(Sized(call.renditions)) >= 2) =>
        /\ call.result \in Names(call.renditions)
        /\ Lookup(call.renditions, call.result).codedWidth # 0
        /\ Lookup(call.renditions, call.result).codedHeight # 0
        /\ AreaOf(Lookup(call.renditions, call.result)) = WantedArea(call.renditions, call.target.pixels)

\* The scenario of C6: 256x144 and 1920x1080 supported, target.pixels = 300*200.
C6_Scenario ==
    /\ call.pc = "done"
    /\ Len(call.renditions) = 2
    /\ {<<call.renditions[i].codedWidth, call.renditions[i].codedHeight>> : i \in 1..2}
          = { <<256, 144>>, <<1920, 1080>> }
    /\ call.target = Target(300 * 200, NoName)

\* C6 as stated: in the scenario the 256x144 rendition is selected.
C6_Selects256x144 ==
    C6_Scenario => AreaOf(Lookup(call.renditions, call.result)) = 256 * 144

\* C6 amended: in the scenario the 1920x1080 rendition is selected, the
\* smallest one whose area is above 300*200.
C6_Selects1920x1080 ==
    C6_Scenario => AreaOf(Lookup(call.renditions, call.result)) = 1920 * 1080

C6_Witness == C6_Scenario /\ call.renditions[1].codedWidth = 256

\* C8: the selected name depends on the set of entries and the target only:
\* every reordering of the entries of the record gives the same name.  Stated
\* for the records whose renditions all carry dimensions, where the fallback
\* to the first entry plays no part.
C8_EntryOrderIrrelevant ==
    (call.pc = "done" /\ Sized(call.renditions) = 1..Len(call.renditions)) =>
        \A f \in Permutations(1..Len(call.renditions)) :
            selectRendition([i \in 1..Len(call.renditions) |-> call.renditions[f[i]]], call.target)
                = call.result

\* C16: with at least two supported renditions none of which carries both
\* codedWidth and codedHeight, pixel-based selection returns the first entry;
\* for a non-empty supported set it returns the name of one of its entries,
\* never undefined.
C16_FallbackToFirstEntry ==
    call.pc = "done" =>
        /\ (Len(call.renditions) >= 2 /\ Sized(call.renditions) = {})
              => call.result = call.renditions[1].name
        /\ Len(call.renditions) >= 1 => call.result \in Names(call.renditions)

\* Three renditions, one of them with a codedWidth alone: the first is returned.
C16_Witness ==
    /\ call.pc = "done"
    /\ Len(call.renditions) = 3
    /\ Sized(call.renditions) = {}
    /\ call.renditions[2].codedWidth # 0
    /\ call.target.pixels # Undefined
    /\ call.result = call.renditions[1].name

\* The place of a rendition name in name ordering.
nameRank(n) == CASE n = "hd" -> 1 [] n = "ld" -> 2 [] n = "sd" -> 3 [] n = "xd" -> 4

\* C17: when the selected rendition has the area the rule asks for and other
\* supported renditions have the same area, the selected one is the one whose
\* name comes first in name ordering, whatever the order of the entries.
C17_TieBrokenByName ==
    (call.pc = "done" /\ Cardinality(Sized(call.renditions)) >= 2
        /\ call.result \in {call.renditions[i].name : i \in Sized(call.renditions)}
        /\ AreaOf(Lookup(call.renditions, call.result))
              = WantedArea(call.renditions, call.target.pixels)) =>
        \A i \in Sized(call.renditions) :
            AreaOf(call.renditions[i]) = AreaOf(Lookup(call.renditions, call.result))
                => nameRank(call.result) <= nameRank(call.renditions[i].name)

(***************************************************************************)
(* Properties of the Source                                                *)
(***************************************************************************)

\* C1: the timestamps written to frame, the placeholder publication
\* included, never decrease: a frame written is not older than the frame
\* written last.
C1_PublishedTimestampsNonDecreasing ==
    [][(frame' # Undefined /\ written # Undefined) => frame' >= written]_vars

\* C2: after close() the frame signal is never written again; close() leaves
\* it undefined, so it stays undefined.
C2_NoFrameAfterClose == closed => frame = Undefined

\* C3: after close() every track pipeline the Source opened is closed.
C3_PipelinesClosedAfterClose == closed => \A p \in 1..MaxPipes : pipes[p].state # "open"

\* C4: while the Source is open and #runBuffer has run on the latest enabled
\* and frame, bufferStatus is "empty" exactly if enabled is true and frame is
\* undefined, and "filled" otherwise.
C4_BufferStatus ==
    (~closed /\ "runBuffer" \notin scheduled) =>
        /\ bufferStatus \in {"empty", "filled"}
        /\ bufferStatus = "empty" <=> (enabled /\ frame = Undefined)

\* A frame was published and retracted again, and the status is back to empty.
C4_Witness ==
    /\ ~closed
    /\ "runBuffer" \notin scheduled
    /\ enabled
    /\ frame = Undefined
    /\ written # Undefined
    /\ bufferStatus = "empty"

Steady == ~closed /\ broadcast /\ enabled /\ h_selected # NoName

\* The active pipeline is running.
ActiveRuns == h_active # 0 /\ pipes[h_active].state = "open"

\* The step is the Sync-gated publication of a frame by the pending
\* pipeline, which promotes it.
PendingPublishes ==
    /\ h_pending # 0
    /\ h_active' = h_pending
    /\ h_pending' = 0
    /\ \E o \in outputs \ outputs' :
          /\ o.pipe = h_pending
          /\ o.st = "ready"
          /\ frame' = o.timestamp

\* The step is the error callback of the decoder of the active pipeline.
ActiveDecoderFails ==
    /\ h_active' = h_active
    /\ pipes'[h_active].state = "closed"
    /\ pipes'[h_active].error
    /\ frame' = frame

LiveNext ==
    \/ \E b \in BOOLEAN : setBroadcast(b)
    \/ \E e \in BOOLEAN : setEnabled(e)
    \/ \E t \in Targets : setTarget(t)
    \/ \E c \in Catalogs : runCatalog(c)
    \/ runSupported
    \/ runSelected
    \/ runPending
    \/ runBuffer
    \/ \E p \in 1..MaxPipes, us \in FrameTimestamps : output(p, us)
    \/ \E o \in outputs : syncWait(o)
    \/ \E o \in outputs : resume(o)

\* The pending track delivers a frame that its decoder decodes.
pendingOutput == \E us \in FrameTimestamps : h_pending # 0 /\ output(h_pending, us)

\* Sync.wait resolves for a frame of the pending track.
pendingSyncWait == \E o \in outputs : o.pipe = h_pending /\ syncWait(o)

anySyncWait == \E o \in outputs : syncWait(o)

\* Scheduled effects and the continuations of resolved waits are microtasks,
\* each of which queues finitely many others, so the queue is drained again
\* and again: Idle is the state in which no effect and no continuation is
\* left to run. Sync.wait resolves; the pending track keeps delivering frames
\* that its decoder decodes, and Sync.wait resolves for them.
LiveSpec ==
    /\ Init
    /\ [][LiveNext]_vars
    /\ []<>Idle
    /\ WF_vars(anySyncWait)
    /\ WF_vars(pendingSyncWait)
    /\ SF_vars(pendingOutput)

\* The selection is r while the active rendition is another one.
SwitchingTo(r) ==
    /\ Steady
    /\ h_selected = r
    /\ ActiveRuns
    /\ pipes[h_active].name # r

\* r is the active rendition and no other pipeline is left open.
SwitchedTo(r) ==
    /\ active = r
    /\ ActiveRuns
    /\ pipes[h_active].name = r
    /\ \A p \in 1..MaxPipes : pipes[p].state = "open" => p \in {h_active, h_pending}

\* C10: when the selection has changed to another supported rendition r, then
\* eventually r is the active rendition and the previously active pipeline is
\* closed, unless the selection changes again or the Source is stopped first.
C10_SwitchCompletes ==
    \A r \in {"hd", "sd"} : SwitchingTo(r) ~> (SwitchedTo(r) \/ h_selected # r \/ ~Steady)

C10_Witness ==
    /\ SwitchedTo("sd")
    /\ h_selected = "sd"
    /\ h_pending = 0
    /\ h_active > 1
    /\ frame # Undefined

(***************************************************************************)
(* The late-frame threshold across a switch                                *)
(***************************************************************************)

\* The threshold of the late-frame tests: this.#timestamp.peek() ?? 0.
lateThreshold == IF h_timestamp = Undefined THEN 0 ELSE h_timestamp

\* C11: the step that promotes the pending pipeline by publishing a frame of
\* timestamp T leaves the late-frame threshold #timestamp at T, so that the
\* promoted pipeline publishes no frame older than T afterwards.
C11_ThresholdKeptAcrossPromotion ==
    [][PendingPublishes => lateThreshold' = fromMicro(frame')]_vars

(***************************************************************************)
(* In-band change of codedWidth/codedHeight                                *)
(***************************************************************************)

\* The step is the run of #runSelected that takes up a catalog change which
\* altered only codedWidth/codedHeight of the selected rendition: the
\* selected name stays and #config differs in its dimensions alone.
ResizeOnly ==
    /\ Steady
    /\ h_selected' = h_selected
    /\ h_config' # h_config
    /\ h_config'.codec = h_config.codec

\* C12: a catalog change that alters only codedWidth/codedHeight of the
\* selected rendition and leaves the selected name unchanged closes no
\* pipeline and opens none: the pipelines stay as they are and #runPending is
\* not queued to run.
C12_ResizeKeepsPipeline ==
    [][ResizeOnly =>
          /\ UNCHANGED << pipes, h_pending, h_active, active >>
          /\ "runPending" \notin scheduled']_vars

\* The active hd pipeline runs on after the catalog resized hd.
C12_Witness ==
    /\ Steady
    /\ scheduled = {}
    /\ h_selected = "hd"
    /\ h_config = configOf(hdResized)
    /\ ActiveRuns
    /\ pipes[h_active].name = "hd"
    /\ h_pending = 0
    /\ frame # Undefined

(***************************************************************************)
(* Decoder errors                                                          *)
(***************************************************************************)

\* C13: a decoder error of the current pipeline re-enters rendition selection
\* and a new pipeline is started: while broadcast and enabled are set and a
\* rendition is selected, once the queued effects have run, the pending or
\* the active pipeline is open.
C13_PipelineRestartedAfterError ==
    (Steady /\ scheduled = {}) =>
        \E p \in {h_pending, h_active} \ {0} : pipes[p].state = "open"

(***************************************************************************)
(* Frames of a closed pipeline                                             *)
(***************************************************************************)

\* A callback that was suspended on the race when its pipeline was closed
\* and continues after it.
ResumesClosed(o) ==
    /\ o \in outputs
    /\ pipes[o.pipe].state = "closed"
    /\ o \notin outputs'

\* C18: a decoded frame whose pipeline was closed while the frame awaited
\* Sync.wait is dropped: the continuation of its callback changes neither the
\* published frame nor #timestamp, and does not make its pipeline the active
\* one, also when the wait and the cancellation complete in the same turn.
C18_CancelledFrameDropped ==
    [][\A o \in outputs : ResumesClosed(o) =>
          /\ frame' = frame
          /\ h_timestamp' = h_timestamp
          /\ h_active' = h_active]_vars

(***************************************************************************)
(* Stopping                                                                *)
(***************************************************************************)

\* The inputs ask for no track.
Stopped == ~broadcast \/ ~enabled \/ h_selected = NoName

\* C24: while broadcast is undefined, enabled is false or no rendition is
\* selected, once the effects and the callbacks have settled no pipeline is
\* open and frame is undefined.
C24_StoppedLeavesNothing ==
    (~closed /\ Stopped /\ Idle) =>
        /\ \A p \in 1..MaxPipes : pipes[p].state # "open"
        /\ frame = Undefined

\* C25: the timestamp getter is the timestamp of the current frame: while
\* frame holds a frame, timestamp is that frame's timestamp in milliseconds;
\* in particular timestamp is undefined only while frame is undefined.
C25_TimestampOfFrame ==
    frame # Undefined => h_timestamp = fromMicro(frame)

(***************************************************************************)
(* The pending and the active pipeline                                     *)
(***************************************************************************)

\* Every pipeline that is not closed is #pending or #active.
OpenAreHeld == \A p \in 1..MaxPipes : pipes[p].state = "open" => p \in {h_pending, h_active}

\* #pending is replaced or dropped without being promoted.
PendingSuperseded == h_pending # 0 /\ h_pending' # h_pending /\ h_active' # h_pending

\* A pipeline becomes #active.
Promoted == h_active' # 0 /\ h_active' # h_active

\* C29: the pipelines that are not closed are #pending and #active, so at
\* most one of each; a pending pipeline that is superseded before it is
\* promoted is closed; and a pipeline that was closed is never made #active.
C29_PendingAndActive ==
    /\ []OpenAreHeld
    /\ [][PendingSuperseded => pipes'[h_pending].state # "open"]_vars
    /\ [][Promoted => pipes[h_active'].state = "open"]_vars

(***************************************************************************)
(* Ownership of the published frames                                       *)
(***************************************************************************)

\* C30: the clones written to frame are single-owner: at most one is not
\* closed and it is the current value of frame, and none is left unclosed
\* once the source is closed, or is stopped and has settled.
C30_FramesSingleOwner ==
    /\ clones = IF frame = Undefined THEN 0 ELSE 1
    /\ closed => clones = 0
    /\ (~closed /\ Stopped /\ Idle) => clones = 0

(***************************************************************************)
(* The input side of a pipeline: #runLegacyTrack and #runCmafTrack         *)
(***************************************************************************)

\* Groups the track delivers.
MaxGroups == 2
\* Segments (CMAF) or frames (legacy) of a group.
MaxSegments == 2

Groups == 1..MaxGroups

\* Samples decodeDataSegment finds in the k-th segment of a group: segments
\* of one sample and segments of several.
samplesIn(k) == k

\* A sample: group, segment of the group, position in the segment.
SampleIds == {id \in Groups \X (1..MaxSegments) \X (1..MaxSegments) : id[3] <= samplesIn(id[2])}

\* sample.timestamp in microseconds: samples are half a millisecond apart.
timestampOf(id) ==
    (((id[1] - 1) * MaxSegments + (id[2] - 1)) * MaxSegments + (id[3] - 1)) * (MicroPerMilli \div 2)

\* What has happened to a sample: calls of sync.update for it and the
\* argument of the last one, calls of decoder.decode and the number of
\* sync.update calls made before the first one.
NoSample == [updates |-> 0, arg |-> Undefined, decodes |-> 0, updatesAtDecode |-> 0]

\* A group: not yet taken, read by its task, or closed by group.close();
\* read counts the segments read, lostAt is 0 or, for a group that failed,
\* one more than the number of groups that had arrived when it failed.
NoGroup == [st |-> "none", read |-> 0, lostAt |-> 0]

\* #runTrack has called #runLegacyTrack or #runCmafTrack: the decoder is
\* configured and the loop awaits its first input.  waited is the sample for
\* whose decoded frame Sync.wait was issued last, <<>> before the first.
SubInit(kind) ==
    [kind |-> kind,
     open |-> TRUE,
     loop |-> "await",
     arrived |-> <<>>,
     next |-> 1,
     groups |-> [g \in Groups |-> NoGroup],
     samples |-> [id \in SampleIds |-> NoSample],
     waited |-> <<>>]

\* this.sync.update(Time.Milli.fromMicro(sample.timestamp))
syncUpdate(u, id) ==
    [u EXCEPT !.samples[id].updates = @ + 1,
              !.samples[id].arg = fromMicro(timestampOf(id))]

\* decoder.decode(chunk)
decoderDecode(u, id) ==
    [u EXCEPT !.samples[id].decodes = @ + 1,
              !.samples[id].updatesAtDecode =
                  IF u.samples[id].decodes = 0 THEN u.samples[id].updates ELSE @]

\* Hands the sample to the decoder before telling Sync.
takeSampleDecodeFirst(u, id) == syncUpdate(decoderDecode(u, id), id)

\* The body of the loops for one sample: sync.update, then decoder.decode.
takeSample(u, id) == decoderDecode(syncUpdate(u, id), id)

\* for (const sample of samples): samples i..n of segment k of group g.
RECURSIVE takeSamples(_, _, _, _, _)
takeSamples(u, g, k, i, n) ==
    IF i > n THEN u ELSE takeSamples(takeSample(u, <<g, k, i>>), g, k, i + 1, n)

\* What the steps of the input side leave alone.
restVars == << sourceVars, call, disc, ui >>

\* The transport delivers the next group of the track, which has not ended,
\* to the subscription.
arrive ==
    /\ sub.kind = "cmaf"
    /\ sub.open
    /\ sub.loop = "await"
    /\ sub.next <= MaxGroups
    /\ sub' = [sub EXCEPT !.arrived = Append(@, sub.next), !.next = @ + 1]
    /\ UNCHANGED restVars

\* Takes the next group only when the task of the previous one has ended.
nextGroupAfterPrevious ==
    /\ sub.kind = "cmaf"
    /\ sub.open
    /\ sub.loop = "await"
    /\ sub.arrived # <<>>
    /\ \A g \in Groups : sub.groups[g].st # "reading"
    /\ sub' = [sub EXCEPT !.arrived = Tail(@), !.groups[Head(sub.arrived)].st = "reading"]
    /\ UNCHANGED restVars

\* The track loop of #runCmafTrack: sub.nextGroup() resolves with a group and
\* effect.spawn starts the task that reads it; the loop awaits the next group
\* without awaiting that task.
nextGroup ==
    /\ sub.kind = "cmaf"
    /\ sub.open
    /\ sub.loop = "await"
    /\ sub.arrived # <<>>
    /\ sub' = [sub EXCEPT !.arrived = Tail(@), !.groups[Head(sub.arrived)].st = "reading"]
    /\ UNCHANGED restVars

\* sub.nextGroup() resolves with undefined: the track has ended, or the
\* subscription was closed by the cleanup of the pipeline.
nextGroupEnds ==
    /\ sub.kind = "cmaf"
    /\ sub.loop = "await"
    /\ ~sub.open \/ sub.arrived = <<>>
    /\ sub' = [sub EXCEPT !.loop = "done"]
    /\ UNCHANGED restVars

\* group.readFrame() resolves with a segment, each sample of which is
\* told to Sync and handed to the decoder.  The task does not watch
\* effect.cancel: after the pipeline is closed decoder.decode throws on the
\* closed decoder at the first sample, and the finally block closes the group.
readFrame(g) ==
    /\ sub.kind = "cmaf"
    /\ sub.groups[g].st = "reading"
    /\ sub.groups[g].read < MaxSegments
    /\ LET k == sub.groups[g].read + 1
           u == [sub EXCEPT !.groups[g].read = k]
       IN sub' = IF sub.open THEN takeSamples(u, g, k, 1, samplesIn(k))
                 ELSE [takeSample(u, <<g, k, 1>>) EXCEPT !.groups[g].st = "closed"]
    /\ UNCHANGED restVars

\* group.readFrame() resolves with undefined: break, then group.close().
readFrameEnds(g) ==
    /\ sub.kind = "cmaf"
    /\ sub.groups[g].st = "reading"
    /\ sub' = [sub EXCEPT !.groups[g].st = "closed"]
    /\ UNCHANGED restVars

\* An exception in the task of a group that also ends the track loop.
failGroupStopsTrack(u, g) ==
    [u EXCEPT !.groups[g].st = "closed", !.groups[g].lostAt = u.next, !.loop = "done"]

\* An exception in the task of group g: the finally block closes the group
\* and the task ends; the track loop is another task.
failGroup(u, g) ==
    [u EXCEPT !.groups[g].st = "closed", !.groups[g].lostAt = u.next]

\* group.readFrame() rejects: the stream of the group was cancelled.
readFrameRejects(g) ==
    /\ sub.kind = "cmaf"
    /\ sub.groups[g].st = "reading"
    /\ sub' = failGroup(sub, g)
    /\ UNCHANGED restVars

\* Container.Cmaf.decodeDataSegment throws on the segment read.
decodeDataSegmentThrows(g) ==
    /\ sub.kind = "cmaf"
    /\ sub.groups[g].st = "reading"
    /\ sub.groups[g].read < MaxSegments
    /\ sub' = failGroup([sub EXCEPT !.groups[g].read = @ + 1], g)
    /\ UNCHANGED restVars

\* The frame the legacy consumer returns n-th.
legacyFrame(n) == << ((n - 1) \div MaxSegments) + 1, ((n - 1) % MaxSegments) + 1, 1 >>

\* The loop of #runLegacyTrack: consumer.decode() wins the race and returns
\* the next frame.
consumerDecode ==
    /\ sub.kind = "legacy"
    /\ sub.open
    /\ sub.loop = "await"
    /\ sub.next <= MaxGroups * MaxSegments
    /\ sub' = [takeSample(sub, legacyFrame(sub.next)) EXCEPT !.next = @ + 1]
    /\ UNCHANGED restVars

\* consumer.decode() returns undefined, or effect.cancel wins the race: break.
consumerEnds ==
    /\ sub.kind = "legacy"
    /\ sub.loop = "await"
    /\ sub' = [sub EXCEPT !.loop = "done"]
    /\ UNCHANGED restVars

\* The decoder hands the decoded frame of a sample to the output callback,
\* which issues this.sync.wait(timestamp) for it.
decoderOutput(id) ==
    /\ sub.kind # "none"
    /\ sub.open
    /\ sub.samples[id].decodes > 0
    /\ sub.waited # id
    /\ sub' = [sub EXCEPT !.waited = id]
    /\ UNCHANGED restVars

\* effect.close() of the pipeline: the subscription, the consumer and the
\* decoder are closed and effect.cancel resolves.
effectClose ==
    /\ sub.kind # "none"
    /\ sub.open
    /\ sub' = [sub EXCEPT !.open = FALSE]
    /\ UNCHANGED restVars

TrackInit ==
    /\ SourceInit
    /\ call = NoCall
    /\ sub \in {SubInit("legacy"), SubInit("cmaf")}
    /\ disc = NoDisc
    /\ ui = NoUi

TrackNext ==
    \/ arrive
    \/ nextGroup
    \/ nextGroupEnds
    \/ \E g \in Groups : readFrame(g)
    \/ \E g \in Groups : readFrameEnds(g)
    \/ \E g \in Groups : readFrameRejects(g)
    \/ \E g \in Groups : decodeDataSegmentThrows(g)
    \/ consumerDecode
    \/ consumerEnds
    \/ \E id \in SampleIds : decoderOutput(id)
    \/ effectClose

SpecTrack == TrackInit /\ [][TrackNext]_vars

(***************************************************************************)
(* Properties of the input side                                            *)
(***************************************************************************)

\* The step is a failure in the task of group g.
GroupFails(g) == sub.groups[g].lostAt = 0 /\ sub'.groups[g].lostAt # 0

\* C14: in the CMAF path a failure confined to one group (readFrame rejects,
\* or decodeDataSegment throws on a segment) closes that group and nothing
\* else: the pipeline stays open, the track loop goes on awaiting the next
\* group, and the other groups are read on.
C14_GroupFailureIsLocal ==
    [][\A g \in Groups :
          (sub.kind = "cmaf" /\ GroupFails(g)) =>
              /\ sub'.groups[g].st = "closed"
              /\ sub'.open = sub.open
              /\ sub'.loop = sub.loop
              /\ sub'.arrived = sub.arrived
              /\ \A h \in Groups \ {g} : sub'.groups[h] = sub.groups[h]]_vars

\* Group 1 failed before group 2 arrived, and samples of group 2 have
\* reached the decoder.
C14_Witness ==
    /\ sub.kind = "cmaf"
    /\ sub.open
    /\ sub.groups[1].lostAt = 2
    /\ sub.samples[<<2, 1, 1>>].decodes = 1

\* C15: in the CMAF path, while the pipeline is open, a group that has
\* arrived is taken by the track loop and a group being read can read its
\* next segment, whatever the state of the other groups: a group whose
\* readFrame is still pending blocks neither.
C15_NewerGroupNotBlocked ==
    (sub.kind = "cmaf" /\ sub.open) =>
        /\ sub.arrived # <<>> => ENABLED nextGroup
        /\ \A g \in Groups :
              (sub.groups[g].st = "reading" /\ sub.groups[g].read < MaxSegments)
                  => ENABLED readFrame(g)

\* The first readFrame of group 1 is still pending and a sample of group 2
\* has reached the decoder.
C15_Witness ==
    /\ sub.kind = "cmaf"
    /\ sub.open
    /\ sub.groups[1].st = "reading"
    /\ sub.groups[1].read = 0
    /\ sub.samples[<<2, 1, 1>>].decodes = 1

\* C19: in the legacy and in the CMAF path, a sample that was handed to
\* decoder.decode had sync.update called for it exactly once before, with its
\* timestamp; sync.update is called for no sample twice and for no sample
\* that is not handed to the decoder; Sync.wait is issued only for a sample
\* that was told to Sync.
C19_UpdateOnceBeforeDecode ==
    sub.kind # "none" =>
        \A id \in SampleIds :
            /\ sub.samples[id].updates <= 1
            /\ sub.samples[id].decodes = sub.samples[id].updates
            /\ sub.samples[id].decodes > 0 =>
                  /\ sub.samples[id].updatesAtDecode = 1
                  /\ sub.samples[id].arg = fromMicro(timestampOf(id))
            /\ sub.waited = id => sub.samples[id].updates = 1

\* Sync.wait was issued for the second sample of a CMAF segment.
C19_Witness ==
    /\ sub.kind = "cmaf"
    /\ sub.waited = <<1, 2, 2>>
    /\ sub.samples[<<1, 2, 2>>].updates = 1
    /\ sub.samples[<<1, 2, 2>>].decodes = 1

(***************************************************************************)
(* HangConfig: discovery of the announced broadcasts (hang-demo)           *)
(***************************************************************************)

\* "const timeout = 2000": the deadline of the announcement loop, in ms.
timeout == 2000

\* The delay of the debounce timer of #scheduleDiscovery, in ms.
debounce == 500

\* Time advances in steps of this many ms.
Step == disc.step

\* Discovery runs that exist at the same time.
MaxRuns == 2
\* Paths a run collects.
MaxBroadcasts == 2

Runs == 1..MaxRuns

\* Values of the URL input; "bad" is one that new URL() rejects.
Urls == {"", "relay", "bad"}

\* Announcements: { path, active }.
Paths == {"a"}
Entries == [path : Paths, active : BOOLEAN]

\* The content of the #suggestions element.
Suggestions(kind, broadcasts) == [kind |-> kind, broadcasts |-> broadcasts]

\* No announcement has been read.
NoEntry == [path |-> NoName, active |-> FALSE]

\* One call of #discover: where it is suspended, its AbortSignal, the
\* connection and the announced iterator it made, Date.now() - startTime,
\* the time left on the timer of the current iteration, broadcasts, and the
\* entry read last.
NoRun == [pc |-> "idle", url |-> "", aborted |-> FALSE, conn |-> "none",
          announced |-> "none", elapsed |-> 0, timer |-> Undefined, broadcasts |-> <<>>,
          entry |-> NoEntry]

DiscInit ==
    [step |-> debounce,
     url |-> "",
     timers |-> <<>>,
     sinceChange |-> debounce,
     changes |-> 0,
     discoveryConnection |-> 0,
     discoveryAbort |-> 0,
     suggestions |-> Suggestions("empty", <<>>),
     runs |-> [r \in Runs |-> NoRun]]

\* connection.close() of the connection of run r; its iterators end with it.
connectionClose(d, r) ==
    [d EXCEPT !.runs[r].conn = "closed",
              !.runs[r].announced = IF @ = "open" THEN "closed" ELSE @]

\* The field is reset and the connection it held is left open.
closeDiscoveryForgets(d) == [d EXCEPT !.discoveryConnection = 0]

\* #closeDiscovery
closeDiscovery(d) ==
    IF d.discoveryConnection = 0 THEN d
    ELSE [connectionClose(d, d.discoveryConnection) EXCEPT !.discoveryConnection = 0]

\* clearTimeout(this.#discoveryTimeout): #discoveryTimeout is the timer set
\* last; clearing a timer that has fired does nothing.
clearTimeout(timers) ==
    IF timers = <<>> THEN timers ELSE SubSeq(timers, 1, Len(timers) - 1)

\* A new timer set while the one set before stays pending.
scheduleDiscoveryKeepsTimer(d) ==
    [d EXCEPT !.timers = Append(@, debounce),
              !.sinceChange = 0,
              !.changes = IF d.timers = <<>> THEN 1 ELSE 2]

\* #scheduleDiscovery: the pending timer is cleared and a new one is set.
\* sinceChange and changes are history: the time since this call, and
\* whether this call is the first since the timer fired or a later one.
scheduleDiscovery(d) ==
    [d EXCEPT !.timers = Append(clearTimeout(@), debounce),
              !.sinceChange = 0,
              !.changes = IF d.timers = <<>> THEN 1 ELSE 2]

\* The timer of an iteration set to the whole timeout.
remainingFromNow(elapsed) == timeout

\* "Math.max(0, timeout - (Date.now() - startTime))"
remaining(elapsed) == IF timeout - elapsed > 0 THEN timeout - elapsed ELSE 0

\* #discover has returned: its timer and the entry it read are dead.
returned(run) == [run EXCEPT !.pc = "done", !.timer = Undefined, !.entry = NoEntry]

\* The catch and finally blocks of #discover.
catchFinally(d, r) ==
    closeDiscovery([d EXCEPT !.suggestions = Suggestions("unavailable", <<>>),
                             !.runs[r] = returned(@)])

\* The end of #discover after the loop: announced.close(), the message when
\* nothing was found, and the finally block.
afterLoop(d, r) ==
    LET e == [d EXCEPT !.runs[r] = returned([@ EXCEPT !.announced = "closed"])]
        f == IF Len(d.runs[r].broadcasts) = 0
             THEN [e EXCEPT !.suggestions = Suggestions("none", <<>>)]
             ELSE e
    IN closeDiscovery(f)

\* The head of the while loop: the test of the deadline and the new timer.
loopHead(d, r) ==
    IF d.runs[r].elapsed < timeout
    THEN [d EXCEPT !.runs[r].timer = remaining(d.runs[r].elapsed)]
    ELSE afterLoop(d, r)

Listening(r) == disc.runs[r].pc = "listening"

FreeRun(r) == disc.runs[r].pc \in {"idle", "done"}

\* #onUrlChange, or attributeChangedCallback with a new url.
onUrlChange(u) ==
    /\ u # disc.url
    /\ \E r \in Runs : FreeRun(r)
    /\ disc' = scheduleDiscovery([disc EXCEPT !.url = u])
    /\ UNCHANGED << sourceVars, call, sub, ui >>

\* disconnectedCallback
disconnectedCallback ==
    /\ disc' = closeDiscovery(disc)
    /\ UNCHANGED << sourceVars, call, sub, ui >>

\* Time passes; no timer is overdue.
tick ==
    /\ \A i \in 1..Len(disc.timers) : disc.timers[i] # 0
    /\ \A r \in Runs : Listening(r) => disc.runs[r].timer # 0
    /\ disc' = [disc EXCEPT
          !.timers = [i \in 1..Len(@) |-> @[i] - Step],
          !.sinceChange = IF @ >= debounce THEN debounce ELSE @ + Step,
          !.runs = [r \in Runs |->
              IF Listening(r)
              THEN [disc.runs[r] EXCEPT
                      !.elapsed = IF @ >= timeout THEN timeout + Step ELSE @ + Step,
                      !.timer = @ - Step]
              ELSE disc.runs[r]]]
    /\ UNCHANGED << sourceVars, call, sub, ui >>

\* The debounce timers that are due, and the timers left when the first of
\* them has fired.
Due(timers) == {i \in 1..Len(timers) : timers[i] = 0}

Fired(timers) ==
    LET i == CHOOSE j \in Due(timers) : \A k \in Due(timers) : j <= k
    IN SubSeq(timers, 1, i - 1) \o SubSeq(timers, i + 1, Len(timers))

\* The debounce timer fires: #discover up to its first await.
discover ==
    /\ Due(disc.timers) # {}
    /\ LET d == [disc EXCEPT !.timers = Fired(@)]
       IN IF d.url = ""
          THEN disc' = [d EXCEPT !.suggestions = Suggestions("empty", <<>>)]
          ELSE \E r \in Runs :
               /\ FreeRun(r)
               /\ \A q \in Runs : FreeRun(q) => r <= q
               /\ LET a == IF d.discoveryAbort = 0 THEN d
                           ELSE [d EXCEPT !.runs[d.discoveryAbort].aborted = TRUE]
                      b == closeDiscovery([a EXCEPT !.discoveryAbort = r])
                      c == [b EXCEPT !.suggestions = Suggestions("discovering", <<>>),
                                     !.runs[r] = [NoRun EXCEPT !.pc = "connecting",
                                                               !.url = d.url]]
                  IN disc' = IF d.url = "bad" THEN catchFinally(c, r) ELSE c
    /\ UNCHANGED << sourceVars, call, sub, ui >>

\* Moq.Connection.connect resolves.
connectResolves(r) ==
    /\ disc.runs[r].pc = "connecting"
    /\ disc' = IF disc.runs[r].aborted
               THEN closeDiscovery([disc EXCEPT
                                       !.runs[r] = returned([@ EXCEPT !.conn = "closed"])])
               ELSE loopHead([disc EXCEPT !.discoveryConnection = r,
                                          !.runs[r].conn = "open",
                                          !.runs[r].announced = "open",
                                          !.runs[r].pc = "listening"], r)
    /\ UNCHANGED << sourceVars, call, sub, ui >>

\* Moq.Connection.connect rejects.
connectRejects(r) ==
    /\ disc.runs[r].pc = "connecting"
    /\ disc' = catchFinally(disc, r)
    /\ UNCHANGED << sourceVars, call, sub, ui >>

\* announced.next() wins the race with an announcement.
announce(r, entry) ==
    /\ Listening(r)
    /\ disc.runs[r].announced = "open"
    /\ entry.active => Len(disc.runs[r].broadcasts) < MaxBroadcasts
    /\ LET read == [disc EXCEPT !.runs[r].entry = entry]
           d == IF entry.active
                THEN LET pushed == Append(disc.runs[r].broadcasts, entry.path)
                     IN [read EXCEPT !.runs[r].broadcasts = pushed,
                                     !.suggestions = Suggestions("list", pushed)]
                ELSE read
       IN disc' = loopHead(d, r)
    /\ UNCHANGED << sourceVars, call, sub, ui >>

\* announced.next() wins the race with the end of the stream.
announcedEnds(r) ==
    /\ Listening(r)
    /\ disc' = afterLoop(disc, r)
    /\ UNCHANGED << sourceVars, call, sub, ui >>

\* announced.next() rejects.
announcedRejects(r) ==
    /\ Listening(r)
    /\ disc' = catchFinally(disc, r)
    /\ UNCHANGED << sourceVars, call, sub, ui >>

\* The timer of the iteration wins the race.
timeoutFires(r) ==
    /\ Listening(r)
    /\ disc.runs[r].timer = 0
    /\ disc' = afterLoop(disc, r)
    /\ UNCHANGED << sourceVars, call, sub, ui >>

DiscoverInit ==
    /\ SourceInit
    /\ call = NoCall
    /\ sub = NoSub
    /\ disc = DiscInit
    /\ ui = NoUi

DiscoverNext ==
    \/ \E u \in Urls : onUrlChange(u)
    \/ disconnectedCallback
    \/ tick
    \/ discover
    \/ \E r \in Runs : connectResolves(r)
    \/ \E r \in Runs : connectRejects(r)
    \/ \E r \in Runs, entry \in Entries : announce(r, entry)
    \/ \E r \in Runs : announcedEnds(r)
    \/ \E r \in Runs : announcedRejects(r)
    \/ \E r \in Runs : timeoutFires(r)

\* Timers fire when they are due and time does not stop.
SpecDiscover ==
    /\ DiscoverInit
    /\ [][DiscoverNext]_vars
    /\ WF_vars(tick)
    /\ WF_vars(discover)
    /\ \A r \in Runs : WF_vars(timeoutFires(r))

\* The debounce alone, on a finer clock: every connection attempt fails.
DebounceInit ==
    /\ SourceInit
    /\ call = NoCall
    /\ sub = NoSub
    /\ disc = [DiscInit EXCEPT !.step = debounce \div 5]
    /\ ui = NoUi

DebounceNext ==
    \/ \E u \in Urls : onUrlChange(u)
    \/ tick
    \/ discover
    \/ \E r \in Runs : connectRejects(r)

SpecDebounce == DebounceInit /\ [][DebounceNext]_vars

(***************************************************************************)
(* Properties of discovery                                                 *)
(***************************************************************************)

\* The run in slot r has listened and ended.
Ended(r) == disc.runs[r].pc = "done" /\ disc.runs[r].announced # "none"

Released(r) == disc.runs[r].announced = "closed" /\ disc.runs[r].conn = "closed"

\* C20: every run of discovery that listens terminates: while it listens no
\* more than the timeout has passed since it started to listen, it ends,
\* and once it has ended its announced iterator and its connection are closed.
C20_DiscoveryTerminates ==
    /\ [](\A r \in Runs : Listening(r) => disc.runs[r].elapsed <= timeout)
    /\ [](\A r \in Runs : Ended(r) => Released(r))
    /\ \A r \in Runs : Listening(r) ~> (Ended(r) /\ Released(r))

\* The paths of a list of broadcasts.
PathsOf(broadcasts) == {broadcasts[i] : i \in 1..Len(broadcasts)}

\* C21: while a run listens and the announcement it read last is an
\* active:false one, the path of that announcement is not in the list of
\* broadcasts shown as suggestions.
C21_InactiveCancelsActive ==
    \A r \in Runs :
        (Listening(r) /\ disc.runs[r].entry # NoEntry /\ ~disc.runs[r].entry.active) =>
            ~(disc.suggestions.kind = "list"
              /\ disc.runs[r].entry.path \in PathsOf(disc.suggestions.broadcasts))

\* The timer fires and #discover starts.
Fires == Len(disc.timers') < Len(disc.timers)

\* C26: at most one discovery timer is pending, and #discover starts only
\* when the debounce delay has passed since the last change of the URL, once
\* for all the changes before it, and with the URL the last change set: the
\* run it starts is the newest one and has that URL.
C26_Debounced ==
    /\ [](Len(disc.timers) <= 1)
    /\ [][Fires =>
            /\ disc.sinceChange = debounce
            /\ disc.timers' = <<>>
            /\ disc.url # "" =>
                  /\ disc.runs'[disc.discoveryAbort'].pc \in {"connecting", "done"}
                  /\ disc.runs'[disc.discoveryAbort'].url = disc.url]_vars

\* A run was started for the last of several URL changes.
C26_Witness ==
    /\ disc.changes = 2
    /\ disc.timers = <<>>
    /\ disc.sinceChange = debounce
    /\ disc.url = "relay"
    /\ \E r \in Runs : /\ disc.runs[r].pc = "connecting"
                        /\ disc.runs[r].url = "relay"
                        /\ disc.discoveryAbort = r
                        /\ \A q \in Runs \ {r} : disc.runs[q] = NoRun

\* C27: every connection that connect returned to a discovery run is closed
\* in the end: while it is open its run has not returned, and it is closed
\* eventually, under any interleaving of runs, URL changes and
\* disconnectedCallback.
C27_NoOrphanedConnection ==
    /\ [](\A r \in Runs : disc.runs[r].conn = "open" => Listening(r))
    /\ \A r \in Runs : (disc.runs[r].conn = "open") ~> (disc.runs[r].conn = "closed")

\* Two runs overlap: the connection of the older one was closed when the
\* newer one started, and the connection of the newer one is open.
C27_Witness ==
    \E r, q \in Runs :
        /\ Listening(r) /\ disc.runs[r].aborted /\ disc.runs[r].conn = "closed"
        /\ Listening(q) /\ disc.runs[q].conn = "open" /\ disc.discoveryConnection = q

\* A run that was superseded returns.
SupersededReturns(r) ==
    /\ disc.runs[r].aborted
    /\ disc.runs[r].pc \in {"connecting", "listening"}
    /\ disc.runs'[r].pc = "done"

\* C28: a run that a newer run has superseded has no effect on the newer
\* one: when it returns it neither closes the connection the newer run
\* stored in #discoveryConnection nor changes the suggestions.
C28_SupersededRunHarmless ==
    [][\A r \in Runs : SupersededReturns(r) =>
          /\ disc.discoveryConnection' = disc.discoveryConnection
          /\ disc.suggestions' = disc.suggestions]_vars

\* A run ended at its deadline although announcements kept arriving.
C20_Witness ==
    \E r \in Runs : /\ Ended(r) /\ Released(r)
                    /\ disc.runs[r].elapsed = timeout
                    /\ Len(disc.runs[r].broadcasts) >= 2

(***************************************************************************)
(* hang-ui: the status effect of WatchUIContextProvider                    *)
(***************************************************************************)

\* Values of watch.connection.url; "" is undefined.
WatchUrls == {"", "relay", "other"}
\* Values of watch.connection.status and of watch.broadcast.status.
ConnectionStatus == {"connecting", "connected", "disconnected"}
BroadcastStatus == {"offline", "loading", "live"}

\* The chain with the broadcast status tested before the connection status.
watchStatusBroadcastFirst(prev, url, connection, status) ==
    IF url = "" THEN "no-url"
    ELSE IF status = "offline" THEN "offline"
    ELSE IF status = "loading" THEN "loading"
    ELSE IF status = "live" THEN "live"
    ELSE IF connection = "disconnected" THEN "disconnected"
    ELSE IF connection = "connecting" THEN "connecting"
    ELSE IF connection = "connected" THEN "connected"
    ELSE prev

\* The if-chain of the status effect; it has no final else, so watchStatus
\* keeps its value when no branch is taken.
watchStatus(prev, url, connection, status) ==
    IF url = "" THEN "no-url"
    ELSE IF connection = "disconnected" THEN "disconnected"
    ELSE IF connection = "connecting" THEN "connecting"
    ELSE IF status = "offline" THEN "offline"
    ELSE IF status = "loading" THEN "loading"
    ELSE IF status = "live" THEN "live"
    ELSE IF connection = "connected" THEN "connected"
    ELSE prev

\* The provider is created: watchStatus is "no-url" and the effect is queued.
StatusInit ==
    /\ SourceInit
    /\ call = NoCall
    /\ sub = NoSub
    /\ disc = NoDisc
    /\ ui \in [kind : {"status"}, url : WatchUrls, connection : ConnectionStatus,
               broadcast : BroadcastStatus, watchStatus : {"no-url"}, queued : {TRUE}]

uiRest == << sourceVars, call, sub, disc >>

\* watch.connection.url changes.
connectionUrl(u) ==
    /\ u # ui.url
    /\ ui' = [ui EXCEPT !.url = u, !.queued = TRUE]
    /\ UNCHANGED uiRest

\* watch.connection.status changes.
connectionStatus(c) ==
    /\ c # ui.connection
    /\ ui' = [ui EXCEPT !.connection = c, !.queued = TRUE]
    /\ UNCHANGED uiRest

\* watch.broadcast.status changes.
broadcastStatus(b) ==
    /\ b # ui.broadcast
    /\ ui' = [ui EXCEPT !.broadcast = b, !.queued = TRUE]
    /\ UNCHANGED uiRest

\* The status effect runs.
statusEffect ==
    /\ ui.queued
    /\ ui' = [ui EXCEPT
          !.watchStatus = watchStatus(@, ui.url, ui.connection, ui.broadcast),
          !.queued = FALSE]
    /\ UNCHANGED uiRest

StatusNext ==
    \/ \E u \in WatchUrls : connectionUrl(u)
    \/ \E c \in ConnectionStatus : connectionStatus(c)
    \/ \E b \in BroadcastStatus : broadcastStatus(b)
    \/ statusEffect

SpecStatus == StatusInit /\ [][StatusNext]_vars

\* The status the priority order gives for the current inputs.
StatusByPriority ==
    CASE ui.url = "" -> "no-url"
      [] ui.url # "" /\ ui.connection = "disconnected" -> "disconnected"
      [] ui.url # "" /\ ui.connection = "connecting" -> "connecting"
      [] ui.url # "" /\ ui.connection = "connected" -> ui.broadcast

\* C22: once the effect has run, the status is the one the priority order
\* gives for the current url, connection status and broadcast status, so
\* it never is a status computed from earlier inputs.
C22_StatusByPriority == ~ui.queued => ui.watchStatus = StatusByPriority

\* The status follows the inputs back from "live" to "disconnected".
C22_Witness ==
    /\ ~ui.queued
    /\ ui.url = "relay" /\ ui.connection = "disconnected" /\ ui.broadcast = "live"
    /\ ui.watchStatus = "disconnected"

(***************************************************************************)
(* hang-ui: the provider effect of StatsItem                               *)
(***************************************************************************)

\* Provider instances a StatsItem makes in its life.
MaxInstances == 4

\* Values of props.statProvider; the registry has no class for "unknown".
StatProviders == {"network", "video", "unknown"}

getStatsInformationProvider(p) == p # "unknown"

\* The effect of a StatsItem: the provider instances it has made, in order,
\* with the calls of setup and cleanup each has got; whether the last run
\* registered a cleanup; live is the number of instances set up and not
\* cleaned up, and peak the largest value live has had.
StatsItem(p) ==
    [kind |-> "stats", statProvider |-> p, media |-> 0, queued |-> TRUE,
     disposed |-> FALSE, instances |-> <<>>, registered |-> FALSE,
     displayData |-> "N/A", live |-> 0, peak |-> 0]

\* The cleanups registered by the last run of the effect are called.
runCleanups(u) ==
    IF u.registered
    THEN [u EXCEPT !.instances[Len(u.instances)].cleanups = @ + 1,
                   !.registered = FALSE,
                   !.live = @ - 1]
    ELSE u

\* The body of the effect.
effectBody(u) ==
    IF ~getStatsInformationProvider(u.statProvider)
    THEN [u EXCEPT !.displayData = "N/A"]
    ELSE LET made == [provider |-> u.statProvider, setups |-> 1, cleanups |-> 0]
         IN [u EXCEPT !.instances = Append(@, made),
                      !.registered = TRUE,
                      !.live = @ + 1,
                      !.peak = IF u.live + 1 > @ THEN u.live + 1 ELSE @]

\* A re-run that calls the cleanups of the run before it after the body.
rerunBodyFirst(u) ==
    LET v == effectBody([u EXCEPT !.registered = FALSE])
        w == IF u.registered
             THEN [v EXCEPT !.instances[Len(u.instances)].cleanups = @ + 1, !.live = @ - 1]
             ELSE v
    IN w

\* A run of the effect: the cleanups of the run before it, then the body.
rerun(u) == effectBody(runCleanups(u))

StatsInit ==
    /\ SourceInit
    /\ call = NoCall
    /\ sub = NoSub
    /\ disc = NoDisc
    /\ ui \in {StatsItem(p) : p \in StatProviders}

\* props.statProvider changes.
setStatProvider(p) ==
    /\ ~ui.disposed
    /\ p # ui.statProvider
    /\ Len(ui.instances) < MaxInstances
    /\ ui' = [ui EXCEPT !.statProvider = p, !.queued = TRUE]
    /\ UNCHANGED uiRest

\* props.audio or props.video changes.
setMedia ==
    /\ ~ui.disposed
    /\ Len(ui.instances) < MaxInstances
    /\ ui' = [ui EXCEPT !.media = 1 - @, !.queued = TRUE]
    /\ UNCHANGED uiRest

\* The effect runs.
statsEffect ==
    /\ ui.queued
    /\ ~ui.disposed
    /\ ui' = [rerun(ui) EXCEPT !.queued = FALSE]
    /\ UNCHANGED uiRest

\* The provider calls setDisplayData.
setDisplayData ==
    /\ ui.registered
    /\ ui.displayData # "data"
    /\ ui' = [ui EXCEPT !.displayData = "data"]
    /\ UNCHANGED uiRest

\* The component is disposed.
dispose ==
    /\ ~ui.disposed
    /\ ui' = [runCleanups(ui) EXCEPT !.disposed = TRUE, !.queued = FALSE]
    /\ UNCHANGED uiRest

StatsNext ==
    \/ \E p \in StatProviders : setStatProvider(p)
    \/ setMedia
    \/ statsEffect
    \/ setDisplayData
    \/ dispose

SpecStats == StatsInit /\ [][StatsNext]_vars

\* Instances that are set up and not cleaned up.
Uncleaned == {i \in 1..Len(ui.instances) : ui.instances[i].cleanups = 0}

\* C23: every provider instance gets setup once and cleanup at most once;
\* the instance before is cleaned up before the next one is made, so never
\* more than one instance is set up and not cleaned up; and after disposal
\* every instance has been cleaned up.
C23_ProviderLifecycle ==
    /\ \A i \in 1..Len(ui.instances) :
          ui.instances[i].setups = 1 /\ ui.instances[i].cleanups <= 1
    /\ Uncleaned \subseteq {Len(ui.instances)}
    /\ ui.peak <= 1
    /\ ui.disposed => Uncleaned = {}

\* Three instances were made and the item was disposed.
C23_Witness ==
    /\ ui.disposed
    /\ Len(ui.instances) = 3
    /\ ui.instances[1].provider # ui.instances[2].provider
    /\ \A i \in 1..3 : ui.instances[i].cleanups = 1

====
